---- MODULE Spec2Model ----
(***************************************************************************)
(* State machine of the wgpu-learn renderer: State::new, State::resize,    *)
(* State::input and State::render of src/src/state.rs, and render_pipe of  *)
(* src/src/pipeline.rs.                                                    *)
(*                                                                         *)
(* The variables size, config, color, click, render_pipeline and           *)
(* shader_color are the fields of struct State.  surface is the            *)
(* configuration most recently handed to Surface::configure.  The other    *)
(* variables observe the last call: which method it was (last), what it    *)
(* returned (ret), whether it called Surface::configure (configured), the  *)
(* GPU calls it made (renderLog) and the frame it presented (presented).   *)
(* toggles, quiet and lastEvent are history variables over the event       *)
(* stream.                                                                 *)
(***************************************************************************)
EXTENDS Integers, Sequences, FiniteSets, TLC

VARIABLES size, config, color, click, render_pipeline, shader_color,
          surface, last, ret, configured, renderLog, presented,
          toggles, quiet, lastEvent

vars == <<size, config, color, click, render_pipeline, shader_color,
          surface, last, ret, configured, renderLog, presented,
          toggles, quiet, lastEvent>>

\* Largest pixel width/height of the window, and largest cursor coordinate.
MaxDim == 2
MaxCoord == 2

Dims == 0..MaxDim
Coords == 0..MaxCoord

-----------------------------------------------------------------------------
(* f64 values.  Every f64 the program computes is a quotient of two small  *)
(* non-negative integers, so a value is kept as the reduced fraction n/d;  *)
(* d = 0 stands for the IEEE results of a division by zero: 1/0 is +inf    *)
(* and 0/0 is NaN.                                                         *)

RECURSIVE gcd(_, _)
gcd(a, b) == IF b = 0 THEN a ELSE gcd(b, a % b)

F64(k) == [n |-> k, d |-> 1]

\* the quotient with its operands exchanged
F64Swapped(x, w) ==
    IF x = 0 THEN [n |-> IF w = 0 THEN 0 ELSE 1, d |-> 0]
    ELSE [n |-> w \div gcd(w, x), d |-> x \div gcd(w, x)]

\* `position.x as f64 / self.size.width as f64`
F64Div(x, w) ==
    IF w = 0 THEN [n |-> IF x = 0 THEN 0 ELSE 1, d |-> 0]
    ELSE [n |-> x \div gcd(x, w), d |-> w \div gcd(x, w)]

Color(r, g, b, a) == [r |-> r, g |-> g, b |-> b, a |-> a]

BLACK == Color(F64(0), F64(0), F64(0), F64(1))
GREEN == Color(F64(0), F64(1), F64(0), F64(1))
BLUE  == Color(F64(0), F64(0), F64(1), F64(1))

-----------------------------------------------------------------------------
(* Surface capabilities and the surface configuration built by State::new. *)

TextureFormats == {"Bgra8Unorm", "Bgra8UnormSrgb"}
PresentModes == {"Fifo"}
AlphaModes == {"Opaque"}

srgb(f) == f = "Bgra8UnormSrgb"

\* surface_caps.formats: a non-empty list of supported formats
FormatLists == {<<f>> : f \in TextureFormats}
                 \cup {<<f, g>> : f \in TextureFormats, g \in TextureFormats}

\* formats.iter().copied().filter(|f| f.describe().srgb).next().unwrap_or(formats[0])
surface_format(formats) ==
    IF \E i \in 1..Len(formats) : srgb(formats[i])
    THEN formats[CHOOSE i \in 1..Len(formats) :
                    /\ srgb(formats[i])
                    /\ \A j \in 1..(i - 1) : ~srgb(formats[j])]
    ELSE formats[1]

PhysicalSize(w, h) == [width |-> w, height |-> h]

\* the configuration with the window's width and height exchanged
SurfaceConfiguration_transposed(sz, format, present_mode, alpha_mode) ==
    [usage |-> "RENDER_ATTACHMENT", format |-> format,
     width |-> sz.height, height |-> sz.width,
     present_mode |-> present_mode, alpha_mode |-> alpha_mode]

\* wgpu::SurfaceConfiguration { .. } of State::new
SurfaceConfiguration(sz, format, present_mode, alpha_mode) ==
    [usage |-> "RENDER_ATTACHMENT", format |-> format,
     width |-> sz.width, height |-> sz.height,
     present_mode |-> present_mode, alpha_mode |-> alpha_mode]

-----------------------------------------------------------------------------
(* Pipelines.  A pipeline is the descriptor it was created from.           *)

\* pipeline.rs: render_pipe(device, config, shader_color)
render_pipe(cfg, variant) ==
    [vertex |-> "vs_" \o variant, fragment |-> "fs_" \o variant,
     target_format |-> cfg.format, blend |-> "REPLACE",
     topology |-> "TriangleList", front_face |-> "Ccw", cull_mode |-> "Back",
     polygon_mode |-> "Fill", depth_stencil |-> "None", sample_count |-> 1,
     multiview |-> "None"]

\* the inline pipeline with the vertex entry point bound in both stages
new_render_pipeline_vs(cfg, variant) ==
    [vertex |-> "vs_" \o variant, fragment |-> "vs_" \o variant,
     target_format |-> cfg.format, blend |-> "REPLACE",
     topology |-> "TriangleList", front_face |-> "Ccw", cull_mode |-> "Back",
     polygon_mode |-> "Fill", depth_stencil |-> "None", sample_count |-> 1,
     multiview |-> "None"]

\* state.rs: the pipeline State::new creates inline
new_render_pipeline(cfg, variant) ==
    [vertex |-> "vs_" \o variant, fragment |-> "fs_" \o variant,
     target_format |-> cfg.format, blend |-> "REPLACE",
     topology |-> "TriangleList", front_face |-> "Ccw", cull_mode |-> "Back",
     polygon_mode |-> "Fill", depth_stencil |-> "None", sample_count |-> 1,
     multiview |-> "None"]

-----------------------------------------------------------------------------
(* The State object as a record of its fields.                             *)

Self == [size |-> size, config |-> config, color |-> color, click |-> click,
         render_pipeline |-> render_pipeline, shader_color |-> shader_color]

RetBool(b) == [type |-> "bool", value |-> b]
RetUnit == [type |-> "unit"]
RetOk == [type |-> "Ok"]
RetErr(e) == [type |-> "Err", error |-> e]

NoFrame == [frame |-> "none"]

-----------------------------------------------------------------------------
(* State::resize.  Returns the new State, the configuration the surface    *)
(* holds afterwards and whether Surface::configure was called.             *)

\* resize guarded by `||` in place of `&&`
resize_or(self, surf, new_size) ==
    IF new_size.width > 0 \/ new_size.height > 0
    THEN LET cfg == [self.config EXCEPT !.width = new_size.width,
                                        !.height = new_size.height]
         IN [self |-> [self EXCEPT !.size = new_size, !.config = cfg],
             surface |-> cfg, configured |-> TRUE]
    ELSE [self |-> self, surface |-> surf, configured |-> FALSE]

\* resize without `self.size = new_size`
resize_keep_size(self, surf, new_size) ==
    IF new_size.width > 0 /\ new_size.height > 0
    THEN LET cfg == [self.config EXCEPT !.width = new_size.width,
                                        !.height = new_size.height]
         IN [self |-> [self EXCEPT !.config = cfg],
             surface |-> cfg, configured |-> TRUE]
    ELSE [self |-> self, surface |-> surf, configured |-> FALSE]

resize(self, surf, new_size) ==
    IF new_size.width > 0 /\ new_size.height > 0
    THEN LET cfg == [self.config EXCEPT !.width = new_size.width,
                                        !.height = new_size.height]
         IN [self |-> [self EXCEPT !.size = new_size, !.config = cfg],
             surface |-> cfg, configured |-> TRUE]
    ELSE [self |-> self, surface |-> surf, configured |-> FALSE]

-----------------------------------------------------------------------------
(* Window events and State::input.                                         *)

ElementStates == {"Pressed", "Released"}
MouseButtons == {"Left", "Right", "Middle"}
\* Space is the designated toggle key of the pipeline variant
VirtualKeyCodes == {"Space", "Escape"}

WindowEvents ==
    {[kind |-> "CursorEntered"], [kind |-> "CursorLeft"], [kind |-> "Focused"]}
    \cup {[kind |-> "MouseInput", state |-> s, button |-> b] :
             s \in ElementStates, b \in MouseButtons}
    \cup {[kind |-> "CursorMoved", x |-> x, y |-> y] : x \in Coords, y \in Coords}
    \cup {[kind |-> "KeyboardInput", state |-> s, key |-> k] :
             s \in ElementStates, k \in VirtualKeyCodes}

\* input with a keyboard arm that swaps the pipeline variant: the designated
\* key released selects "rainbow", pressed selects "main"
input_keyed(self, event) ==
    CASE event.kind = "CursorEntered" ->
           [self |-> [self EXCEPT !.color = GREEN], ret |-> TRUE]
      [] event.kind = "CursorLeft" ->
           [self |-> [self EXCEPT !.click = FALSE, !.color = BLACK], ret |-> TRUE]
      [] event.kind = "MouseInput" ->
           [self |-> [self EXCEPT !.click = (event.button = "Left")], ret |-> FALSE]
      [] event.kind = "CursorMoved" ->
           IF self.click
           THEN [self |-> [self EXCEPT
                     !.color = Color(F64Div(event.x, self.size.width),
                                     F64Div(event.y, self.size.height),
                                     F64(1), F64(1)),
                     !.click = FALSE],
                 ret |-> TRUE]
           ELSE [self |-> self, ret |-> FALSE]
      [] event.kind = "KeyboardInput" /\ event.key = "Space" ->
           LET variant == IF event.state = "Released" THEN "rainbow" ELSE "main"
           IN [self |-> [self EXCEPT
                   !.shader_color = variant,
                   !.render_pipeline = render_pipe(self.config, variant)],
               ret |-> TRUE]
      [] OTHER -> [self |-> self, ret |-> FALSE]

\* input whose CursorEntered arm also clears click, as the CursorLeft arm does
input_enter_clears(self, event) ==
    CASE event.kind = "CursorEntered" ->
           [self |-> [self EXCEPT !.click = FALSE, !.color = GREEN], ret |-> TRUE]
      [] event.kind = "CursorLeft" ->
           [self |-> [self EXCEPT !.click = FALSE, !.color = BLACK], ret |-> TRUE]
      [] event.kind = "MouseInput" ->
           [self |-> [self EXCEPT !.click = (event.button = "Left")], ret |-> FALSE]
      [] event.kind = "CursorMoved" ->
           IF self.click
           THEN [self |-> [self EXCEPT
                     !.color = Color(F64Div(event.x, self.size.width),
                                     F64Div(event.y, self.size.height),
                                     F64(1), F64(1)),
                     !.click = FALSE],
                 ret |-> TRUE]
           ELSE [self |-> self, ret |-> FALSE]
      [] OTHER -> [self |-> self, ret |-> FALSE]

\* input whose `_` arm returns true
input_other_consumed(self, event) ==
    CASE event.kind = "CursorEntered" ->
           [self |-> [self EXCEPT !.color = GREEN], ret |-> TRUE]
      [] event.kind = "CursorLeft" ->
           [self |-> [self EXCEPT !.click = FALSE, !.color = BLACK], ret |-> TRUE]
      [] event.kind = "MouseInput" ->
           [self |-> [self EXCEPT !.click = (event.button = "Left")], ret |-> FALSE]
      [] event.kind = "CursorMoved" ->
           IF self.click
           THEN [self |-> [self EXCEPT
                     !.color = Color(F64Div(event.x, self.size.width),
                                     F64Div(event.y, self.size.height),
                                     F64(1), F64(1)),
                     !.click = FALSE],
                 ret |-> TRUE]
           ELSE [self |-> self, ret |-> FALSE]
      [] OTHER -> [self |-> self, ret |-> TRUE]

\* input whose MouseInput arm sets click for every button
input_any_button(self, event) ==
    CASE event.kind = "CursorEntered" ->
           [self |-> [self EXCEPT !.color = GREEN], ret |-> TRUE]
      [] event.kind = "CursorLeft" ->
           [self |-> [self EXCEPT !.click = FALSE, !.color = BLACK], ret |-> TRUE]
      [] event.kind = "MouseInput" ->
           [self |-> [self EXCEPT !.click = TRUE], ret |-> FALSE]
      [] event.kind = "CursorMoved" ->
           IF self.click
           THEN [self |-> [self EXCEPT
                     !.color = Color(F64Div(event.x, self.size.width),
                                     F64Div(event.y, self.size.height),
                                     F64(1), F64(1)),
                     !.click = FALSE],
                 ret |-> TRUE]
           ELSE [self |-> self, ret |-> FALSE]
      [] OTHER -> [self |-> self, ret |-> FALSE]

\* input whose CursorEntered arm returns false
input_enter_unreported(self, event) ==
    CASE event.kind = "CursorEntered" ->
           [self |-> [self EXCEPT !.color = GREEN], ret |-> FALSE]
      [] event.kind = "CursorLeft" ->
           [self |-> [self EXCEPT !.click = FALSE, !.color = BLACK], ret |-> TRUE]
      [] event.kind = "MouseInput" ->
           [self |-> [self EXCEPT !.click = (event.button = "Left")], ret |-> FALSE]
      [] event.kind = "CursorMoved" ->
           IF self.click
           THEN [self |-> [self EXCEPT
                     !.color = Color(F64Div(event.x, self.size.width),
                                     F64Div(event.y, self.size.height),
                                     F64(1), F64(1)),
                     !.click = FALSE],
                 ret |-> TRUE]
           ELSE [self |-> self, ret |-> FALSE]
      [] OTHER -> [self |-> self, ret |-> FALSE]

\* match event { ... }: the new State and the returned bool
input(self, event) ==
    CASE event.kind = "CursorEntered" ->
           [self |-> [self EXCEPT !.color = GREEN], ret |-> TRUE]
      [] event.kind = "CursorLeft" ->
           [self |-> [self EXCEPT !.click = FALSE, !.color = BLACK], ret |-> TRUE]
      [] event.kind = "MouseInput" ->
           [self |-> [self EXCEPT !.click = (event.button = "Left")], ret |-> FALSE]
      [] event.kind = "CursorMoved" ->
           IF self.click
           THEN [self |-> [self EXCEPT
                     !.color = Color(F64Div(event.x, self.size.width),
                                     F64Div(event.y, self.size.height),
                                     F64(1), F64(1)),
                     !.click = FALSE],
                 ret |-> TRUE]
           ELSE [self |-> self, ret |-> FALSE]
      [] OTHER -> [self |-> self, ret |-> FALSE]

-----------------------------------------------------------------------------
(* State::render.  acquired is the outcome of get_current_texture().       *)

SurfaceErrors == {"Timeout", "Outdated", "Lost", "OutOfMemory"}

\* render that reports every failed acquisition as SurfaceError::Lost
render_collapsed(self, surf, acquired) ==
    IF acquired \in SurfaceErrors
    THEN [ret |-> RetErr("Lost"),
          log |-> <<"get_current_texture">>,
          presented |-> NoFrame]
    ELSE [ret |-> RetOk,
          log |-> <<"get_current_texture", "create_view", "create_command_encoder",
                    "begin_render_pass", "set_pipeline", "draw", "submit", "present">>,
          presented |-> [width |-> surf.width, height |-> surf.height,
                         format |-> surf.format,
                         load |-> [op |-> "Clear", color |-> self.color],
                         store |-> TRUE, depth_stencil_attachment |-> "None",
                         pipeline |-> self.render_pipeline,
                         vertices |-> <<0, 3>>, instances |-> <<0, 1>>]]

\* render that asks for the frame a second time before giving up
render_retry(self, surf, acquired) ==
    IF acquired \in SurfaceErrors
    THEN [ret |-> RetErr(acquired),
          log |-> <<"get_current_texture", "get_current_texture">>,
          presented |-> NoFrame]
    ELSE [ret |-> RetOk,
          log |-> <<"get_current_texture", "create_view", "create_command_encoder",
                    "begin_render_pass", "set_pipeline", "draw", "submit", "present">>,
          presented |-> [width |-> surf.width, height |-> surf.height,
                         format |-> surf.format,
                         load |-> [op |-> "Clear", color |-> self.color],
                         store |-> TRUE, depth_stencil_attachment |-> "None",
                         pipeline |-> self.render_pipeline,
                         vertices |-> <<0, 3>>, instances |-> <<0, 1>>]]

\* render that presents the frame before submitting the command buffer
render_present_first(self, surf, acquired) ==
    IF acquired \in SurfaceErrors
    THEN [ret |-> RetErr(acquired),
          log |-> <<"get_current_texture">>,
          presented |-> NoFrame]
    ELSE [ret |-> RetOk,
          log |-> <<"get_current_texture", "create_view", "create_command_encoder",
                    "begin_render_pass", "set_pipeline", "draw", "present", "submit">>,
          presented |-> [width |-> surf.width, height |-> surf.height,
                         format |-> surf.format,
                         load |-> [op |-> "Clear", color |-> self.color],
                         store |-> TRUE, depth_stencil_attachment |-> "None",
                         pipeline |-> self.render_pipeline,
                         vertices |-> <<0, 3>>, instances |-> <<0, 1>>]]

\* render that clears with the color State::new set, not the current one
render_initial_color(self, surf, acquired) ==
    IF acquired \in SurfaceErrors
    THEN [ret |-> RetErr(acquired),
          log |-> <<"get_current_texture">>,
          presented |-> NoFrame]
    ELSE [ret |-> RetOk,
          log |-> <<"get_current_texture", "create_view", "create_command_encoder",
                    "begin_render_pass", "set_pipeline", "draw", "submit", "present">>,
          presented |-> [width |-> surf.width, height |-> surf.height,
                         format |-> surf.format,
                         load |-> [op |-> "Clear", color |-> BLUE],
                         store |-> TRUE, depth_stencil_attachment |-> "None",
                         pipeline |-> self.render_pipeline,
                         vertices |-> <<0, 3>>, instances |-> <<0, 1>>]]

render(self, surf, acquired) ==
    IF acquired \in SurfaceErrors
    THEN [ret |-> RetErr(acquired),
          log |-> <<"get_current_texture">>,
          presented |-> NoFrame]
    ELSE [ret |-> RetOk,
          log |-> <<"get_current_texture", "create_view", "create_command_encoder",
                    "begin_render_pass", "set_pipeline", "draw", "submit", "present">>,
          presented |-> [width |-> surf.width, height |-> surf.height,
                         format |-> surf.format,
                         load |-> [op |-> "Clear", color |-> self.color],
                         store |-> TRUE, depth_stencil_attachment |-> "None",
                         pipeline |-> self.render_pipeline,
                         vertices |-> <<0, 3>>, instances |-> <<0, 1>>]]

-----------------------------------------------------------------------------
(* History variables.                                                      *)

IsToggle(event) == event.kind = "KeyboardInput" /\ event.key = "Space"

\* toggles of the designated key so far: 0 none, 1 an odd number,
\* 2 an even number (at least two)
togglesAfter(t, event) ==
    IF IsToggle(event) THEN (IF t = 1 THEN 2 ELSE 1) ELSE t

\* the last call was not an input call
NoEvent == [kind |-> "none"]

\* what happened last among: a button-pressed event, a color-sampling move,
\* a pointer-leave
quietAfter(q, self, event) ==
    CASE event.kind = "MouseInput" /\ event.state = "Pressed" -> "pressed"
      [] event.kind = "CursorLeft" -> "left"
      [] event.kind = "CursorMoved" /\ self.click -> "sampled"
      [] OTHER -> q

-----------------------------------------------------------------------------
(* The state machine.                                                      *)

\* State::new(window): size is window.inner_size()
Init ==
    \E w \in Dims, h \in Dims, formats \in FormatLists,
       pm \in PresentModes, am \in AlphaModes :
        LET cfg == SurfaceConfiguration(PhysicalSize(w, h), surface_format(formats),
                                        pm, am)
        IN /\ size = PhysicalSize(w, h)
           /\ config = cfg
           /\ surface = cfg
           /\ color = BLUE
           /\ click = FALSE
           /\ shader_color = "main"
           /\ render_pipeline = new_render_pipeline(cfg, "main")
           /\ last = "new"
           /\ ret = RetUnit
           /\ configured = TRUE
           /\ renderLog = <<>>
           /\ presented = NoFrame
           /\ toggles = 0
           /\ quiet = "new"
           /\ lastEvent = NoEvent

SetSelf(s) ==
    /\ size' = s.size
    /\ config' = s.config
    /\ color' = s.color
    /\ click' = s.click
    /\ render_pipeline' = s.render_pipeline
    /\ shader_color' = s.shader_color

\* the event loop calls state.resize(new_size)
ResizeTo(w, h) ==
    LET r == resize(Self, surface, PhysicalSize(w, h))
    IN /\ SetSelf(r.self)
       /\ surface' = r.surface
       /\ configured' = r.configured
       /\ last' = "resize"
       /\ ret' = RetUnit
       /\ renderLog' = <<>>
       /\ presented' = NoFrame

\* the event loop calls state.input(event)
InputEvent(event) ==
    LET r == input(Self, event)
    IN /\ SetSelf(r.self)
       /\ ret' = RetBool(r.ret)
       /\ last' = "input"
       /\ configured' = FALSE
       /\ renderLog' = <<>>
       /\ presented' = NoFrame
       /\ UNCHANGED surface

\* the event loop calls state.render()
RenderWith(acquired) ==
    LET r == render(Self, surface, acquired)
    IN /\ ret' = r.ret
       /\ renderLog' = r.log
       /\ presented' = r.presented
       /\ last' = "render"
       /\ configured' = FALSE
       /\ UNCHANGED <<size, config, color, click, render_pipeline, shader_color,
                      surface>>

Resize == \E w \in Dims, h \in Dims : ResizeTo(w, h) /\ UNCHANGED <<toggles, quiet, lastEvent>>

Input == \E event \in WindowEvents : InputEvent(event) /\ UNCHANGED <<toggles, quiet, lastEvent>>

Render ==
    \E acquired \in {"Ok"} \cup SurfaceErrors :
        RenderWith(acquired) /\ UNCHANGED <<toggles, quiet, lastEvent>>

Next == Resize \/ Input \/ Render

Spec == Init /\ [][Next]_vars

\* the same machine, counting the toggles of the designated key
InputCounted ==
    \E event \in WindowEvents :
        /\ InputEvent(event)
        /\ toggles' = togglesAfter(toggles, event)
        /\ UNCHANGED <<quiet, lastEvent>>

NextToggles == Resize \/ InputCounted \/ Render

SpecToggles == Init /\ [][NextToggles]_vars

\* the same machine, remembering the last press, sample or leave
InputTracked ==
    \E event \in WindowEvents :
        /\ InputEvent(event)
        /\ quiet' = quietAfter(quiet, Self, event)
        /\ UNCHANGED <<toggles, lastEvent>>

NextPresses == Resize \/ InputTracked \/ Render

SpecPresses == Init /\ [][NextPresses]_vars

\* the same machine, remembering the event when the last call was input
InputLogged ==
    \E event \in WindowEvents :
        /\ InputEvent(event)
        /\ lastEvent' = event
        /\ UNCHANGED <<toggles, quiet>>

ResizeLogged ==
    \E w \in Dims, h \in Dims :
        /\ ResizeTo(w, h)
        /\ lastEvent' = NoEvent
        /\ UNCHANGED <<toggles, quiet>>

RenderLogged ==
    \E acquired \in {"Ok"} \cup SurfaceErrors :
        /\ RenderWith(acquired)
        /\ lastEvent' = NoEvent
        /\ UNCHANGED <<toggles, quiet>>

NextEvents == ResizeLogged \/ InputLogged \/ RenderLogged

SpecEvents == Init /\ [][NextEvents]_vars

TypeOK ==
    /\ size \in [width : Dims, height : Dims]
    /\ click \in BOOLEAN
    /\ shader_color \in {"main", "rainbow"}
    /\ toggles \in 0..2
    /\ last \in {"new", "resize", "input", "render"}
    /\ quiet \in {"new", "pressed", "left", "sampled"}
    /\ configured \in BOOLEAN
    /\ lastEvent \in WindowEvents \cup {NoEvent}

-----------------------------------------------------------------------------
(* Events named by the properties below.                                   *)

CursorEntered == [kind |-> "CursorEntered"]
CursorLeft == [kind |-> "CursorLeft"]
CursorMoved(x, y) == [kind |-> "CursorMoved", x |-> x, y |-> y]

\* the surface holds a configuration of non-zero area
NonZeroSurface == surface.width > 0 /\ surface.height > 0

\* v is the f64 quotient x / w, stated by cross-multiplication
IsQuotient(v, x, w) ==
    IF w = 0 THEN v.d = 0 /\ v.n = (IF x = 0 THEN 0 ELSE 1)
    ELSE v.d > 0 /\ v.n * w = x * v.d

\* how often call occurs in log, and where it occurs first
Count(log, call) == Cardinality({i \in 1..Len(log) : log[i] = call})
Pos(log, call) == CHOOSE i \in 1..Len(log) : log[i] = call /\ \A j \in 1..(i - 1) : log[j] # call

\* the frame a render with a successful acquisition would present now
FrameNow == render(Self, surface, "Ok").presented

-----------------------------------------------------------------------------
(* Properties.                                                             *)

\* C1: a resize call whose width or height is 0 is a no-op: the stored
\* configuration and pixel size are the same afterwards and the surface is
\* not reconfigured.
C1_ZeroResizeIsNoOp ==
    [][\A w \in Dims, h \in Dims :
          (w = 0 \/ h = 0) /\ ResizeTo(w, h) =>
              /\ config' = config
              /\ size' = size
              /\ surface' = surface
              /\ ~configured']_vars

\* a resize with a zero dimension was the last call, on a surface that holds
\* a non-zero configuration
C1_Witness ==
    /\ last = "resize"
    /\ ~configured
    /\ NonZeroSurface

\* C2: after a resize call with width > 0 and height > 0 the stored
\* configuration and pixel size hold the requested values and the surface has
\* been reconfigured with exactly that configuration; a render that follows
\* presents a frame of the stored configuration's size.
C2_ResizeApplies ==
    [][/\ \A w \in Dims, h \in Dims :
             w > 0 /\ h > 0 /\ ResizeTo(w, h) =>
                 /\ config'.width = w /\ config'.height = h
                 /\ size' = PhysicalSize(w, h)
                 /\ config'.format = config.format
                 /\ config'.present_mode = config.present_mode
                 /\ config'.alpha_mode = config.alpha_mode
                 /\ surface' = config'
                 /\ configured'
       /\ RenderWith("Ok") =>
             /\ presented'.width = config.width
             /\ presented'.height = config.height
             /\ presented'.format = config.format]_vars

\* a resize to MaxDim x 1 was the last call and was applied
C2_Witness ==
    /\ last = "resize"
    /\ configured
    /\ size = PhysicalSize(MaxDim, 1)
    /\ surface.width = MaxDim /\ surface.height = 1

\* C3: every configuration applied to the surface, by State::new or by a
\* resize, has width > 0 and height > 0.
C3_AppliedConfigPositive == surface.width > 0 /\ surface.height > 0

\* C4: the active pipeline is bound to vs_<shader_color> and
\* fs_<shader_color> in every state, shader_color and render_pipeline change
\* only together, and a render binds the pipeline of the current variant.
C4_PipelineMatchesVariant ==
    /\ [](/\ render_pipeline.vertex = "vs_" \o shader_color
          /\ render_pipeline.fragment = "fs_" \o shader_color)
    /\ [][/\ (shader_color' # shader_color) <=> (render_pipeline' # render_pipeline)
          /\ RenderWith("Ok") =>
                /\ presented'.pipeline.vertex = "vs_" \o shader_color
                /\ presented'.pipeline.fragment = "fs_" \o shader_color]_vars

\* a frame was presented with the pipeline of the variant "main"
C4_Witness ==
    /\ last = "render"
    /\ ret = RetOk
    /\ shader_color = "main"
    /\ presented.pipeline.vertex = "vs_main"
    /\ presented.pipeline.fragment = "fs_main"

\* C5: a key-released event of the designated key selects the variant
\* "rainbow", a key-pressed event selects "main"; both rebuild the pipeline
\* with render_pipe and return true.  Stated for surfaces of non-zero area.
C5_ToggleKeySwitchesVariant ==
    [][\A event \in WindowEvents :
          NonZeroSurface /\ IsToggle(event) /\ InputEvent(event) =>
              LET variant == IF event.state = "Released" THEN "rainbow" ELSE "main"
              IN /\ shader_color' = variant
                 /\ render_pipeline' = render_pipe(config, variant)
                 /\ ret' = RetBool(TRUE)]_vars

\* C6: after an even number of toggles of the designated key, with any other
\* calls interleaved, shader_color is the original variant and the pipeline
\* is bound to the entry points of the initial pipeline.
C6_EvenTogglesRestore ==
    toggles \in {0, 2} =>
        /\ shader_color = "main"
        /\ render_pipeline.vertex = "vs_main"
        /\ render_pipeline.fragment = "fs_main"

\* the designated key was toggled an even number of times, at least twice
C6_Witness == toggles = 2 /\ last = "input"

\* C7: a pointer move to (x, y) with click set, on a surface whose applied
\* configuration is W x H, sets color to (x/W, y/H, 1.0, 1.0), clears click
\* and returns true.
C7_MoveSamplesColor ==
    [][\A x \in Coords, y \in Coords :
          click /\ InputEvent(CursorMoved(x, y)) =>
              /\ IsQuotient(color'.r, x, surface.width)
              /\ IsQuotient(color'.g, y, surface.height)
              /\ color'.b = F64(1)
              /\ color'.a = F64(1)
              /\ click' = FALSE
              /\ ret' = RetBool(TRUE)]_vars

\* a move to (1, 1) on a 2 x 2 surface has sampled the color (1/2, 1/2, 1, 1)
C7_Witness ==
    /\ last = "input"
    /\ ret = RetBool(TRUE)
    /\ ~click
    /\ surface.width = 2 /\ surface.height = 2
    /\ color = Color([n |-> 1, d |-> 2], [n |-> 1, d |-> 2], F64(1), F64(1))

\* C8: one color sample per press: a pointer move that follows a
\* color-sampling move with no button-pressed event in between leaves color
\* unchanged and returns false.  Stated for surfaces of non-zero area.
C8_OneSamplePerPress ==
    [][\A x \in Coords, y \in Coords :
          NonZeroSurface /\ quiet = "sampled" /\ InputEvent(CursorMoved(x, y)) =>
              /\ color' = color
              /\ ret' = RetBool(FALSE)]_vars

\* C9: a pointer-enter event sets color to GREEN and returns true, leaving
\* click, shader_color and the surface configuration unchanged.
C9_EnterIsGreen ==
    [][InputEvent(CursorEntered) =>
          /\ color' = GREEN
          /\ ret' = RetBool(TRUE)
          /\ click' = click
          /\ shader_color' = shader_color
          /\ render_pipeline' = render_pipeline
          /\ config' = config
          /\ surface' = surface
          /\ ~configured']_vars

\* the pointer entered while click was set
C9_Witness ==
    /\ last = "input"
    /\ ret = RetBool(TRUE)
    /\ color = GREEN
    /\ click

\* C10: a pointer-leave event sets color to BLACK and click to false and
\* returns true; a pointer move that follows a pointer-leave with no
\* button-pressed event in between does not change color.  Stated for
\* surfaces of non-zero area.
C10_LeaveIsBlackAndDisarms ==
    [][/\ NonZeroSurface /\ InputEvent(CursorLeft) =>
             /\ color' = BLACK
             /\ click' = FALSE
             /\ ret' = RetBool(TRUE)
       /\ \A x \in Coords, y \in Coords :
             NonZeroSurface /\ quiet = "left" /\ InputEvent(CursorMoved(x, y)) =>
                 color' = color]_vars

\* C11: when get_current_texture() fails, render returns exactly the error
\* it reported, records no render pass, submits nothing and presents no
\* frame.
C11_AcquireErrorPropagates ==
    [][\A e \in SurfaceErrors :
          RenderWith(e) =>
              /\ ret' = RetErr(e)
              /\ Count(renderLog', "begin_render_pass") = 0
              /\ Count(renderLog', "draw") = 0
              /\ Count(renderLog', "submit") = 0
              /\ Count(renderLog', "present") = 0
              /\ presented' = NoFrame]_vars

\* a render failed with OutOfMemory on a surface of non-zero area
C11_Witness ==
    /\ last = "render"
    /\ ret = RetErr("OutOfMemory")
    /\ presented = NoFrame
    /\ NonZeroSurface

\* C12: a failed render asks for the frame exactly once and leaves color,
\* click, shader_color, render_pipeline and the surface configuration
\* unchanged, so a later successful render presents the frame it would have
\* presented before the failed call.
C12_FailedRenderChangesNothing ==
    [][\A e \in SurfaceErrors :
          RenderWith(e) =>
              /\ Count(renderLog', "get_current_texture") = 1
              /\ color' = color
              /\ click' = click
              /\ shader_color' = shader_color
              /\ render_pipeline' = render_pipeline
              /\ config' = config
              /\ size' = size
              /\ surface' = surface
              /\ ~configured'
              /\ FrameNow' = FrameNow]_vars

\* a render failed while click was set and the color was GREEN
C12_Witness ==
    /\ last = "render"
    /\ ret = RetErr("Timeout")
    /\ click
    /\ color = GREEN
    /\ renderLog = <<"get_current_texture">>

\* C13: a successful render acquires the frame, records one render pass
\* (clear load, keep store, no depth/stencil) with one draw of vertices
\* [0,3) and one instance, submits, then presents: each once, in this order,
\* and presents exactly one frame.
C13_RenderOrder ==
    (last = "render" /\ ret = RetOk) =>
        /\ \A call \in {"get_current_texture", "begin_render_pass", "set_pipeline",
                        "draw", "submit", "present"} : Count(renderLog, call) = 1
        /\ Pos(renderLog, "get_current_texture") < Pos(renderLog, "begin_render_pass")
        /\ Pos(renderLog, "begin_render_pass") < Pos(renderLog, "set_pipeline")
        /\ Pos(renderLog, "set_pipeline") < Pos(renderLog, "draw")
        /\ Pos(renderLog, "draw") < Pos(renderLog, "submit")
        /\ Pos(renderLog, "submit") < Pos(renderLog, "present")
        /\ presented # NoFrame
        /\ presented.load.op = "Clear"
        /\ presented.store = TRUE
        /\ presented.depth_stencil_attachment = "None"
        /\ presented.vertices = <<0, 3>>
        /\ presented.instances = <<0, 1>>

\* a render succeeded and presented a frame of MaxDim x MaxDim pixels
C13_Witness ==
    /\ last = "render"
    /\ ret = RetOk
    /\ Len(renderLog) > 0
    /\ renderLog[Len(renderLog)] = "present"
    /\ presented.width = MaxDim /\ presented.height = MaxDim

\* C14: an event of a kind input does not recognize (neither a pointer event
\* nor the designated key) returns false and leaves color, click,
\* shader_color, render_pipeline and the surface configuration unchanged.
C14_UnrecognizedEventIgnored ==
    [][(/\ last' = "input"
        /\ lastEvent'.kind \notin {"CursorEntered", "CursorLeft", "MouseInput",
                                   "CursorMoved"}
        /\ ~IsToggle(lastEvent')) =>
           /\ ret' = RetBool(FALSE)
           /\ color' = color
           /\ click' = click
           /\ shader_color' = shader_color
           /\ render_pipeline' = render_pipeline
           /\ config' = config
           /\ size' = size
           /\ surface' = surface
           /\ ~configured']_vars

\* a Focused event was passed to input while click was set and the color
\* was GREEN
C14_Witness ==
    /\ last = "input"
    /\ lastEvent = [kind |-> "Focused"]
    /\ ret = RetBool(FALSE)
    /\ click
    /\ color = GREEN

\* C15: a pointer-button-released event of any button leaves click, color
\* and shader_color unchanged and returns false.  Stated for surfaces of
\* non-zero area.
C15_ReleaseChangesNothing ==
    [][\A b \in MouseButtons :
          (/\ NonZeroSurface
           /\ InputEvent([kind |-> "MouseInput", state |-> "Released", button |-> b])) =>
              /\ click' = click
              /\ color' = color
              /\ shader_color' = shader_color
              /\ ret' = RetBool(FALSE)]_vars

\* C16: a pointer-button-pressed event sets click to true for the primary
\* button and to false for any other button, leaves color and shader_color
\* unchanged and returns false.
C16_PressSetsClick ==
    [][(/\ last' = "input"
        /\ lastEvent'.kind = "MouseInput"
        /\ lastEvent'.state = "Pressed") =>
           /\ click' = (lastEvent'.button = "Left")
           /\ color' = color
           /\ shader_color' = shader_color
           /\ render_pipeline' = render_pipeline
           /\ ret' = RetBool(FALSE)]_vars

\* the right button was pressed and click is cleared
C16_Witness ==
    /\ last = "input"
    /\ lastEvent = [kind |-> "MouseInput", state |-> "Pressed", button |-> "Right"]
    /\ ~click
    /\ ret = RetBool(FALSE)
    /\ color = GREEN

\* C17: a successful render clears the frame with the color stored at the
\* time of the call and binds the pipeline stored at the time of the call,
\* whatever inputs and resizes came before.
C17_RenderUsesCurrentState ==
    [][RenderWith("Ok") =>
          /\ presented'.load = [op |-> "Clear", color |-> color]
          /\ presented'.pipeline = render_pipeline
          /\ color' = color
          /\ render_pipeline' = render_pipeline]_vars

\* a frame was presented with a sampled color after a move to (1, 1) on a
\* 2 x 2 surface
C17_Witness ==
    /\ last = "render"
    /\ ret = RetOk
    /\ surface.width = 2 /\ surface.height = 2
    /\ presented.load.color = Color([n |-> 1, d |-> 2], [n |-> 1, d |-> 2], F64(1), F64(1))
    /\ presented.pipeline = render_pipeline

\* C18: right after State::new, before any event, color is BLUE, click is
\* false, shader_color is "main", the pipeline is bound to vs_main/fs_main
\* and the stored configuration's width and height are the window's pixel
\* size.
C18_InitialState ==
    last = "new" =>
        /\ color = BLUE
        /\ click = FALSE
        /\ shader_color = "main"
        /\ render_pipeline.vertex = "vs_main"
        /\ render_pipeline.fragment = "fs_main"
        /\ render_pipeline.target_format = config.format
        /\ config.width = size.width
        /\ config.height = size.height
        /\ surface = config

\* State::new returned for a window of MaxDim x 1 pixels
C18_Witness ==
    /\ last = "new"
    /\ size = PhysicalSize(MaxDim, 1)
    /\ config.width = MaxDim /\ config.height = 1

\* C19: in every reachable state the public pixel size equals the stored
\* configuration's width and height, and that configuration is the one last
\* applied to the surface, so the divisor of the color sample is the applied
\* size.
C19_SizeMatchesConfig ==
    /\ size.width = config.width
    /\ size.height = config.height
    /\ surface.width = size.width
    /\ surface.height = size.height

\* a color was sampled at (1, 1) after the size became 2 x 1
C19_Witness ==
    /\ last = "input"
    /\ ret = RetBool(TRUE)
    /\ size = PhysicalSize(2, 1)
    /\ surface.width = 2 /\ surface.height = 1
    /\ color = Color([n |-> 1, d |-> 2], F64(1), F64(1), F64(1))

\* C20: an input call that returns false leaves color, shader_color and
\* render_pipeline unchanged, so the frame a render would present is the
\* same before and after it.
C20_NoRepaintNoVisibleChange ==
    [][(last' = "input" /\ ret' = RetBool(FALSE)) =>
          /\ color' = color
          /\ shader_color' = shader_color
          /\ render_pipeline' = render_pipeline
          /\ FrameNow' = FrameNow]_vars

\* a left-button press returned false and changed click only
C20_Witness ==
    /\ last = "input"
    /\ lastEvent = [kind |-> "MouseInput", state |-> "Pressed", button |-> "Left"]
    /\ ret = RetBool(FALSE)
    /\ click
    /\ color = BLACK

====
